---- MODULE Spec2Model ----
(***************************************************************************)
(* The brainfuck compiler and virtual machine of shoumodip/brainfuck, in    *)
(* its two source variants:                                                 *)
(*   "brainfuck.rs"  src/brainfuck.rs  (sized_inst!, change!, Input(n))     *)
(*   "main.rs"       src/src/main.rs   (amount_command!, modulo!, Input)    *)
(* Indices (index, ip, mp, jump targets, loop-stack entries) keep the       *)
(* 0-based values of the Rust code; a Rust access v[i] is v[i + 1] here.    *)
(***************************************************************************)
EXTENDS Integers, Sequences, FiniteSets, TLC

VARIABLES
    variant,    \* which of the two source files is running
    source,     \* the characters source.chars() has yielded so far
    output,     \* compile: let mut output
    loops,      \* compile: let mut loops
    index,      \* compile: let mut index
    line,       \* compile: let mut line
    column,     \* compile: let mut column
    pc,         \* "compile", "compiled", "run", "halted", "exit", "panic"
    err,        \* the message printed to standard error, or NoError
    program,    \* Vm.program
    ip,         \* Vm.ip
    mp,         \* Vm.mp
    memory,     \* Vm.memory, as the function from its non-zero cells to their values
    consumed,   \* the bytes read from stdin so far
    stdout,     \* the bytes flushed to stdout so far
    unflushed,  \* the bytes written by print! and not flushed
    steps,      \* the number of iterations of Vm::start's loop so far
    files,      \* main: let mut files
    history     \* the outcomes of the earlier calls of compile, oldest first

compileVars == <<source, output, loops, index, line, column>>
vmVars == <<program, ip, mp, memory, consumed, stdout, unflushed, steps>>
mainVars == <<variant, files, history>>
vars == <<variant, source, output, loops, index, line, column, pc, err,
          program, ip, mp, memory, consumed, stdout, unflushed, steps,
          files, history>>

----------------------------------------------------------------------------
\* Bounds of the model

\* the longest source text scanned
MaxLen == 5
\* the most iterations of Vm::start's loop followed in a whole-program run
MaxSteps == 40
\* the most bytes stdin holds
MaxRead == 2
\* the largest count of an instruction drawn for a single VM step
MaxAmount == 520
\* memory pointers drawn for a single VM step lie within MaxMp of a tape end
MaxMp == 2
\* the most whole turns of the tape in a drawn shift count
MaxTurns == 2

----------------------------------------------------------------------------
\* Constants of the program

TAPE_LENGTH == 30000
U8_MAX == 255

Variants == {"brainfuck.rs", "main.rs"}
IsA == variant = "brainfuck.rs"
IsB == variant = "main.rs"

NL == "\n"
\* the eight operators, the newline and one comment character
Alphabet == {"+", "-", ">", "<", ",", ".", "[", "]", NL, "x"}
\* the byte values stdin delivers
InputBytes == {0, 1, U8_MAX}

NoError == [kind |-> "none"]

Last(s) == s[Len(s)]
Front(s) == SubSeq(s, 1, Len(s) - 1)

----------------------------------------------------------------------------
\* enum Inst

Inst(type, n) == [op |-> type, arg |-> n]
\* main.rs: Input and Output carry no count
Bare(type) == [op |-> type]

----------------------------------------------------------------------------
\* compile

\* sized_inst! folding without its continue, so that index += 1 follows
sized_inst_no_continue(out, idx, type) ==
    IF out # <<>> /\ Last(out).op = type
    THEN [output   |-> [out EXCEPT ![idx] = Inst(type, Last(out).arg + 1)],
          continue |-> FALSE,
          panic    |-> idx \notin 1..Len(out)]
    ELSE [output   |-> Append(out, Inst(type, 1)),
          continue |-> FALSE,
          panic    |-> FALSE]

\* sized_inst! (brainfuck.rs): output[index - 1] = type(n + 1), or push type(1)
sized_inst(out, idx, type) ==
    IF out # <<>> /\ Last(out).op = type
    THEN [output   |-> [out EXCEPT ![idx] = Inst(type, Last(out).arg + 1)],
          continue |-> TRUE,
          panic    |-> idx \notin 1..Len(out)]
    ELSE [output   |-> Append(out, Inst(type, 1)),
          continue |-> FALSE,
          panic    |-> FALSE]

\* amount_command! that always pushes
amount_command_no_fold(out, type) ==
    [output |-> Append(out, Inst(type, 1)), continue |-> FALSE, panic |-> FALSE]

\* amount_command! (main.rs): *output.last_mut() = type(n + 1), or push type(1)
amount_command(out, type) ==
    IF out # <<>> /\ Last(out).op = type
    THEN [output   |-> [out EXCEPT ![Len(out)] = Inst(type, Last(out).arg + 1)],
          continue |-> TRUE,
          panic    |-> FALSE]
    ELSE [output   |-> Append(out, Inst(type, 1)),
          continue |-> FALSE,
          panic    |-> FALSE]

\* the instruction kind of an operator character
TypeOf(c) ==
    CASE c = "+" -> "Inc"
      [] c = "-" -> "Dec"
      [] c = ">" -> "ShiftRight"
      [] c = "<" -> "ShiftLeft"
      [] c = "," -> "Input"
      [] c = "." -> "Output"

\* the match arms of '+', '-', '>', '<', ',' and '.'
Emit(out, idx, c) ==
    IF IsA THEN sized_inst(out, idx, TypeOf(c))
    ELSE IF c \in {",", "."}
         THEN [output |-> Append(out, Bare(TypeOf(c))), continue |-> FALSE, panic |-> FALSE]
         ELSE amount_command(out, TypeOf(c))

\* an entry of the loop stack: (index, line, column) in brainfuck.rs, index in main.rs
LoopEntry(idx, l, c) == IF IsA THEN <<idx, l, c>> ELSE idx
LoopIndex(e) == IF IsA THEN e[1] ELSE e

\* the arm of '[': the loop is pushed and its LoopStart emitted
OpenLoop(out, lps, idx, l, col) ==
    [output |-> Append(out, Inst("LoopStart", idx)),
     loops  |-> Append(lps, LoopEntry(idx, l, col))]

\* the arm of ']' with Some(0) popped, but output.clear() left out
CloseLoop_keep_output(out, lps, idx) ==
    LET i == LoopIndex(Last(lps)) IN
    IF i = 0
    THEN [output |-> out, loops |-> <<>>, index |-> 0,
          continue |-> TRUE, panic |-> FALSE]
    ELSE [output |-> Append([out EXCEPT ![i + 1] = Inst("LoopStart", idx)],
                            Inst("LoopEnd", i)),
          loops |-> Front(lps), index |-> idx,
          continue |-> FALSE, panic |-> i + 1 \notin 1..Len(out)]

\* the arm of ']' with the LoopStart patched to the index after the LoopEnd
CloseLoop_target_past(out, lps, idx) ==
    LET i == LoopIndex(Last(lps)) IN
    IF i = 0
    THEN [output |-> <<>>, loops |-> <<>>, index |-> 0,
          continue |-> TRUE, panic |-> FALSE]
    ELSE [output |-> Append([out EXCEPT ![i + 1] = Inst("LoopStart", idx + 1)],
                            Inst("LoopEnd", i)),
          loops |-> Front(lps), index |-> idx,
          continue |-> FALSE, panic |-> i + 1 \notin 1..Len(out)]

\* the arm of ']' when loops.pop() is Some: Some(0) discards the program so
\* far, Some(i) patches output[i] and emits the LoopEnd
CloseLoop(out, lps, idx) ==
    LET i == LoopIndex(Last(lps)) IN
    IF i = 0
    THEN [output |-> <<>>, loops |-> <<>>, index |-> 0,
          continue |-> TRUE, panic |-> FALSE]
    ELSE [output |-> Append([out EXCEPT ![i + 1] = Inst("LoopStart", idx)],
                            Inst("LoopEnd", i)),
          loops |-> Front(lps), index |-> idx,
          continue |-> FALSE, panic |-> i + 1 \notin 1..Len(out)]

\* the message of ']' with the column before its increment
Unbalanced_stale_column(l, col) ==
    [kind |-> "Unbalanced", line |-> l, column |-> col - 1]

\* the message of ']' on an empty loop stack
Unbalanced(l, col) == [kind |-> "Unbalanced", line |-> l, column |-> col]

\* the message of a '[' left open at the end of the source: brainfuck.rs
\* reports the position kept in loops.last(), main.rs the line and column
\* the scan has reached
Unterminated(lps, l, col) ==
    IF IsA
    THEN [kind |-> "Unterminated", line |-> Last(lps)[2], column |-> Last(lps)[3]]
    ELSE [kind |-> "Unterminated", line |-> l, column |-> col]

\* one iteration of "for c in source.chars()"
Scan(c) ==
    /\ pc = "compile"
    /\ Len(source) < MaxLen
    /\ source' = Append(source, c)
    /\ UNCHANGED <<mainVars, vmVars>>
    /\ LET col == column + 1 IN
       CASE c \in {"+", "-", ">", "<", ",", "."} ->
              LET r == Emit(output, index, c) IN
              /\ output' = r.output
              /\ index' = IF r.continue THEN index ELSE index + 1
              /\ pc' = IF r.panic THEN "panic" ELSE pc
              /\ column' = col
              /\ UNCHANGED <<loops, line, err>>
         [] c = "[" ->
              LET r == OpenLoop(output, loops, index, line, col) IN
              /\ loops' = r.loops
              /\ output' = r.output
              /\ index' = index + 1
              /\ column' = col
              /\ UNCHANGED <<line, pc, err>>
         [] c = "]" ->
              IF loops = <<>>
              THEN \* None: the message, then process::exit(1)
                   /\ err' = Unbalanced(line, col)
                   /\ pc' = "exit"
                   /\ column' = col
                   /\ UNCHANGED <<output, loops, index, line>>
              ELSE LET r == CloseLoop(output, loops, index) IN
                   /\ loops' = r.loops
                   /\ output' = r.output
                   /\ index' = IF r.continue THEN r.index ELSE r.index + 1
                   /\ pc' = IF r.panic THEN "panic" ELSE pc
                   /\ column' = col
                   /\ UNCHANGED <<line, err>>
         [] c = NL ->
              /\ line' = line + 1
              /\ column' = 0
              /\ UNCHANGED <<output, loops, index, pc, err>>
         [] OTHER ->
              /\ column' = col
              /\ UNCHANGED <<output, loops, index, line, pc, err>>

\* the end of the source: the check of the loop stack and the return of output
CompileEnd ==
    /\ pc = "compile"
    /\ UNCHANGED <<mainVars, compileVars, vmVars>>
    /\ IF loops # <<>>
       THEN /\ pc' = "exit"
            /\ err' = Unterminated(loops, line, column)
       ELSE /\ pc' = "compiled"
            /\ err' = err

----------------------------------------------------------------------------
\* Vm

\* Rust's % on isize: the remainder has the sign of the dividend
Rem(a, d) == IF a >= 0 THEN a % d ELSE -((-a) % d)

\* "value as u8" keeps the low eight bits; "value as usize" keeps a value in 0..isize::MAX
as(value, type) == IF type = "u8" THEN value % 256 ELSE value

\* change! without the "+ d" that lifts a negative remainder
change_no_lift(number, amount, divisor, op, type) ==
    LET moved == IF op = "+" THEN number + amount ELSE number - amount
    IN  as(Rem(moved, divisor), type)

\* change! (brainfuck.rs): the new value of number
change(number, amount, divisor, op, type) ==
    LET d == divisor
        moved == IF op = "+" THEN number + amount ELSE number - amount
    IN  as(Rem(Rem(moved, d) + d, d), type)

\* isize::abs
abs(value) == IF value < 0 THEN -value ELSE value

\* modulo! with the negative branch returning the remainder itself
modulo_no_reflect(value, limit0, type) ==
    LET limit == limit0 + 1
        wrapped == IF value >= limit THEN Rem(value, limit)
                   ELSE IF value < 0 THEN Rem(abs(value), limit)
                   ELSE value
    IN  as(wrapped, type)

\* modulo! (main.rs)
modulo(value, limit0, type) ==
    LET limit == limit0 + 1
        wrapped == IF value >= limit THEN Rem(value, limit)
                   ELSE IF value < 0 THEN limit - Rem(abs(value), limit)
                   ELSE value
    IN  as(wrapped, type)

\* self.memory[i], for i < TAPE_LENGTH
Cell(mem, i) == IF i \in DOMAIN mem THEN mem[i] ELSE 0

\* self.memory[i] = v, for i < TAPE_LENGTH
Store(mem, i, v) ==
    IF v = 0 THEN [j \in DOMAIN mem \ {i} |-> mem[j]]
    ELSE [j \in DOMAIN mem \cup {i} |-> IF j = i THEN v ELSE mem[j]]

\* the bounds check of self.memory[self.mp]
InBounds(p) == p \in 0..(TAPE_LENGTH - 1)

\* print!("{}", b as char): the UTF-8 encoding of the character U+0000..U+00FF
Utf8(b) == IF b < 128 THEN <<b>> ELSE <<192 + (b \div 64), 128 + (b % 64)>>

RECURSIVE Repeat(_, _)
Repeat(s, n) == IF n = 0 THEN <<>> ELSE s \o Repeat(s, n - 1)

\* Vm::new taking over the tape and the pointer of the VM before it
VmNew_keep_tape ==
    /\ pc = "compiled"
    /\ pc' = "run"
    /\ program' = output
    /\ memory' = memory
    /\ mp' = mp
    /\ ip' = 0
    /\ steps' = 0
    /\ UNCHANGED <<mainVars, compileVars, err, consumed, stdout, unflushed>>

\* Vm::new(compile(file_path))
VmNew ==
    /\ pc = "compiled"
    /\ pc' = "run"
    /\ program' = output
    /\ memory' = <<>>
    /\ mp' = 0
    /\ ip' = 0
    /\ steps' = 0
    /\ UNCHANGED <<mainVars, compileVars, err, consumed, stdout, unflushed>>

\* the new value of the current cell under Inc(amount) and Dec(amount)
Arith(op, v, amount) ==
    IF IsA THEN change(v, amount, U8_MAX, op, "u8")
    ELSE modulo(IF op = "+" THEN v + amount ELSE v - amount, U8_MAX, "u8")

\* the new memory pointer under ShiftRight(amount) and ShiftLeft(amount)
Shift(op, p, amount) ==
    IF IsA THEN change(p, amount, TAPE_LENGTH, op, "usize")
    ELSE modulo(IF op = "+" THEN p + amount ELSE p - amount, TAPE_LENGTH, "usize")

\* the index out of bounds panic of self.memory[self.mp]
Panic ==
    /\ pc' = "panic"
    /\ UNCHANGED <<program, ip, mp, memory, consumed, stdout, unflushed>>

ExecArith(op, amount) ==
    IF ~InBounds(mp) THEN Panic
    ELSE /\ memory' = Store(memory, mp, Arith(op, Cell(memory, mp), amount))
         /\ ip' = ip + 1
         /\ UNCHANGED <<pc, program, mp, consumed, stdout, unflushed>>

\* the shifts clearing the cell they leave
ExecShift_clears(op, amount) ==
    /\ mp' = Shift(op, mp, amount)
    /\ memory' = Store(memory, mp, 0)
    /\ ip' = ip + 1
    /\ UNCHANGED <<pc, program, consumed, stdout, unflushed>>

ExecShift(op, amount) ==
    /\ mp' = Shift(op, mp, amount)
    /\ ip' = ip + 1
    /\ UNCHANGED <<pc, program, memory, consumed, stdout, unflushed>>

\* Output: amount times print!, then stdout().flush(), which succeeds or fails
ExecOutput(amount) ==
    IF ~InBounds(mp) THEN Panic
    ELSE LET bytes == Repeat(Utf8(Cell(memory, mp)), amount) IN
         \E ok \in BOOLEAN :
            /\ IF ok
               THEN /\ stdout' = stdout \o bytes
                    /\ unflushed' = <<>>
                    /\ ip' = ip + 1
                    /\ pc' = pc
               ELSE /\ stdout' = stdout
                    /\ unflushed' = bytes
                    /\ ip' = ip
                    /\ pc' = IF IsA THEN "exit" ELSE "panic"
            /\ UNCHANGED <<program, mp, memory, consumed>>

\* Input with the end of stdin read as the byte 0 and the run going on
ExecInput_eof_zero(amount) ==
    \E k \in 0..amount :
       /\ Len(consumed) + k <= MaxRead
       /\ \E bs \in [1..k -> InputBytes] :
             IF k > 0 /\ ~InBounds(mp)
             THEN /\ consumed' = Append(consumed, bs[1])
                  /\ pc' = "panic"
                  /\ UNCHANGED <<program, ip, mp, memory, stdout, unflushed>>
             ELSE /\ consumed' = consumed \o bs
                  /\ memory' = IF k = amount THEN Store(memory, mp, bs[k])
                               ELSE Store(memory, mp, 0)
                  /\ ip' = ip + 1
                  /\ UNCHANGED <<pc, program, mp, stdout, unflushed>>

\* Input: amount times stdin().bytes().next() into the current cell; stdin
\* delivers the bytes bs and then, when they are fewer than amount, its end
\* or a read error.  The byte is read before self.memory[self.mp] is indexed.
ExecInput(amount) ==
    \E k \in 0..amount :
       /\ Len(consumed) + k <= MaxRead
       /\ \E bs \in [1..k -> InputBytes] :
             IF k > 0 /\ ~InBounds(mp)
             THEN /\ consumed' = Append(consumed, bs[1])
                  /\ pc' = "panic"
                  /\ UNCHANGED <<program, ip, mp, memory, stdout, unflushed>>
             ELSE /\ consumed' = consumed \o bs
                  /\ memory' = IF k > 0 THEN Store(memory, mp, bs[k]) ELSE memory
                  /\ ip' = IF k = amount THEN ip + 1 ELSE ip
                  /\ pc' = IF k = amount THEN pc
                           ELSE IF IsA THEN "exit" ELSE "panic"
                  /\ UNCHANGED <<program, mp, stdout, unflushed>>

\* the jumps with the test of LoopEnd inverted
ExecJump_end_on_zero(op, i) ==
    IF ~InBounds(mp) THEN Panic
    ELSE LET zero == Cell(memory, mp) = 0
         IN  /\ ip' = (IF zero THEN i ELSE ip) + 1
             /\ UNCHANGED <<pc, program, mp, memory, consumed, stdout, unflushed>>

\* the jumps landing on their target, without the self.ip += 1 that follows
ExecJump_to_target(op, i) ==
    IF ~InBounds(mp) THEN Panic
    ELSE LET zero == Cell(memory, mp) = 0
             jump == IF op = "LoopStart" THEN zero ELSE ~zero
         IN  /\ ip' = IF jump THEN i ELSE ip + 1
             /\ UNCHANGED <<pc, program, mp, memory, consumed, stdout, unflushed>>

\* LoopStart(i) jumps on a zero cell, LoopEnd(i) on a non-zero cell
ExecJump(op, i) ==
    IF ~InBounds(mp) THEN Panic
    ELSE LET zero == Cell(memory, mp) = 0
             jump == IF op = "LoopStart" THEN zero ELSE ~zero
         IN  /\ ip' = (IF jump THEN i ELSE ip) + 1
             /\ UNCHANGED <<pc, program, mp, memory, consumed, stdout, unflushed>>

\* Vm::execute
execute ==
    LET inst == program[ip + 1]
        amount == IF "arg" \in DOMAIN inst THEN inst.arg ELSE 1
    IN  CASE inst.op = "Inc" -> ExecArith("+", amount)
          [] inst.op = "Dec" -> ExecArith("-", amount)
          [] inst.op = "ShiftRight" -> ExecShift("+", amount)
          [] inst.op = "ShiftLeft" -> ExecShift("-", amount)
          [] inst.op = "Output" -> ExecOutput(amount)
          [] inst.op = "Input" -> ExecInput(amount)
          [] inst.op \in {"LoopStart", "LoopEnd"} -> ExecJump(inst.op, inst.arg)

\* one iteration of the loop of Vm::start: self.execute(); self.ip += 1
VmStep ==
    /\ pc = "run"
    /\ ip < Len(program)
    /\ execute
    /\ steps' = steps + 1
    /\ UNCHANGED <<mainVars, compileVars, err>>

\* the exit of the loop of Vm::start
VmHalt ==
    /\ pc = "run"
    /\ ~(ip < Len(program))
    /\ pc' = "halted"
    /\ UNCHANGED <<mainVars, compileVars, err, vmVars>>

\* VmStep within the steps the model follows
BoundedVmStep == steps < MaxSteps /\ VmStep

----------------------------------------------------------------------------
\* the state in which compile starts

Init ==
    /\ variant \in Variants
    /\ files = 0
    /\ history = <<>>
    /\ source = <<>>
    /\ output = <<>>
    /\ loops = <<>>
    /\ index = 0
    /\ line = 1
    /\ column = 0
    /\ pc = "compile"
    /\ err = NoError
    /\ program = <<>>
    /\ ip = 0
    /\ mp = 0
    /\ memory = <<>>
    /\ consumed = <<>>
    /\ stdout = <<>>
    /\ unflushed = <<>>
    /\ steps = 0

Next ==
    \/ \E c \in Alphabet : Scan(c)
    \/ CompileEnd
    \/ VmNew
    \/ BoundedVmStep
    \/ VmHalt

Spec == Init /\ [][Next]_vars

----------------------------------------------------------------------------
\* A single VM step on drawn operands: the state in which the second
\* instruction of a two-instruction program is about to execute.

\* the counts drawn for Inc and Dec
Amounts == 1..MaxAmount
\* the counts drawn for ShiftRight and ShiftLeft: short ones and whole turns of the tape
ShiftAmounts ==
    (1..MaxMp) \cup {t * TAPE_LENGTH + d : t \in 1..MaxTurns, d \in {-1, 0, 1}}
\* the memory pointers drawn: the cells next to both ends of the tape
MpValues == (0..MaxMp) \cup {TAPE_LENGTH - 1 - d : d \in 0..MaxMp}

\* the Input instruction of the running variant
InputInst == IF IsA THEN Inst("Input", 1) ELSE Bare("Input")

\* after "," has read the byte v: Inc(n) or Dec(n) is next
ArithInit ==
    \E v \in 0..U8_MAX, n \in Amounts, op \in {"Inc", "Dec"} :
       /\ program = <<InputInst, Inst(op, n)>>
       /\ ip = 1
       /\ mp = 0
       /\ memory = Store(<<>>, 0, v)
       /\ consumed = <<v>>
       /\ steps = 1

\* after ShiftRight(p) has moved the pointer to p: ShiftRight(n) or ShiftLeft(n) is next
ShiftInit ==
    \E p \in MpValues, n \in ShiftAmounts, op \in {"ShiftRight", "ShiftLeft"} :
       /\ program = IF p = 0 THEN <<Inst(op, n)>> ELSE <<Inst("ShiftRight", p), Inst(op, n)>>
       /\ ip = IF p = 0 THEN 0 ELSE 1
       /\ mp = p
       /\ memory = <<>>
       /\ consumed = <<>>
       /\ steps = ip

VmInit ==
    /\ variant \in Variants
    /\ files = 0
    /\ history = <<>>
    /\ source = <<>>
    /\ output = <<>>
    /\ loops = <<>>
    /\ index = 0
    /\ line = 1
    /\ column = 0
    /\ pc = "run"
    /\ err = NoError
    /\ stdout = <<>>
    /\ unflushed = <<>>
    /\ (ArithInit \/ ShiftInit)

VmNext ==
    \/ VmStep
    \/ VmHalt

SpecVm == VmInit /\ [][VmNext]_vars

----------------------------------------------------------------------------
\* Properties of a single VM step

\* the instruction Vm::execute is about to match on
CurInst == program[ip + 1]
\* Vm::start is about to execute an instruction of one of the kinds ops
Executing(ops) == pc = "run" /\ ip < Len(program) /\ CurInst.op \in ops
\* the step taken is an iteration of the loop of Vm::start
Stepped == steps' = steps + 1
\* the current cell
Cur == Cell(memory, mp)

\* the value (v + n) mod 256 or (v - n) mod 256 the specification gives the cell
WrappedCell(op, v, n) == (IF op = "Inc" THEN v + n ELSE v - n) % 256
\* the pointer (p + n) mod TAPE_LENGTH or (p - n) mod TAPE_LENGTH
WrappedPointer(op, p, n) == (IF op = "ShiftRight" THEN p + n ELSE p - n) % TAPE_LENGTH

\* C1: in src/brainfuck.rs, Inc(n) and Dec(n) on a cell holding v leave it
\* holding (v + n) mod 256 and (v - n) mod 256; Dec(1) on 0 yields 255 and
\* Inc(1) on 255 yields 0.
C1_IncDecMod256 ==
    [][(IsA /\ Executing({"Inc", "Dec"}) /\ Stepped)
         => Cell(memory', mp) = WrappedCell(CurInst.op, Cur, CurInst.arg)]_vars

\* C2: in src/src/main.rs, every state reached by ShiftRight and ShiftLeft
\* steps from mp = 0 has 0 <= mp < TAPE_LENGTH, so that memory[mp] is in
\* bounds and the run does not abort.
C2_PointerInBounds == IsB => InBounds(mp)

\* C3: in src/src/main.rs, Inc(n) and Dec(n) on a cell holding v leave it
\* holding (v + n) mod 256 and (v - n) mod 256, also for counts that are
\* multiples of 256 or larger than 256.
C3_IncDecMod256 ==
    [][(IsB /\ Executing({"Inc", "Dec"}) /\ Stepped)
         => /\ pc' = "run"
            /\ Cell(memory', mp) = WrappedCell(CurInst.op, Cur, CurInst.arg)]_vars

\* Dec(512) has run on a cell holding 0, where 0 - 512 is a negative
\* multiple of 256, and the cell holds 0
C3_Witness ==
    /\ IsB
    /\ pc = "run"
    /\ program = <<Bare("Input"), Inst("Dec", 512)>>
    /\ consumed = <<0>>
    /\ ip = 2
    /\ Cur = 0

\* C4: in src/brainfuck.rs, ShiftRight(n) and ShiftLeft(n) set the pointer p
\* to (p + n) mod TAPE_LENGTH and (p - n) mod TAPE_LENGTH, and the pointer
\* is within the tape in every state.
C4_ShiftModTape ==
    /\ [](IsA => InBounds(mp))
    /\ [][(IsA /\ Executing({"ShiftRight", "ShiftLeft"}) /\ Stepped)
            => /\ pc' = "run"
               /\ mp' = WrappedPointer(CurInst.op, mp, CurInst.arg)]_vars

\* ShiftLeft(1) has run with the pointer at 0 and left it at TAPE_LENGTH - 1
C4_Witness ==
    /\ IsA
    /\ pc = "run"
    /\ program = <<Inst("ShiftLeft", 1)>>
    /\ ip = 1
    /\ mp = TAPE_LENGTH - 1

----------------------------------------------------------------------------
\* Properties of compile, stated on the source text and the program

\* the characters that emit an instruction by themselves
EmitChars == {"+", "-", ">", "<", ",", "."}
\* the kinds of instruction '+', '-', '>' and '<' fold into
Foldable == {"Inc", "Dec", "ShiftRight", "ShiftLeft"}

\* the positions of the newlines before position p of the text s
NewlinesBefore(s, p) == {k \in 1..(p - 1) : s[k] = NL}
\* the 1-based line of the character at position p of s
LineAt(s, p) == 1 + Cardinality(NewlinesBefore(s, p))
\* the 1-based column of the character at position p of s
ColumnAt(s, p) ==
    LET nls == NewlinesBefore(s, p)
    IN  IF nls = {} THEN p ELSE p - (CHOOSE k \in nls : \A j \in nls : j <= k)

\* the nesting depth of the text after its first p characters
Depth(s, p) ==
    Cardinality({k \in 1..p : s[k] = "["}) - Cardinality({k \in 1..p : s[k] = "]"})

\* the positions of the '[' of s[k..] left open, innermost last, after those of open
RECURSIVE OpenBrackets(_, _, _)
OpenBrackets(s, k, open) ==
    IF k > Len(s) THEN open
    ELSE IF s[k] = "[" THEN OpenBrackets(s, k + 1, Append(open, k))
    ELSE IF s[k] = "]" /\ open # <<>> THEN OpenBrackets(s, k + 1, Front(open))
    ELSE OpenBrackets(s, k + 1, open)

\* the bracket structure of a program: whether its LoopStart and LoopEnd
\* instructions balance, and the pairs (i, j) of matching indices
RECURSIVE Pairing(_, _, _, _)
Pairing(prog, k, open, pairs) ==
    IF k > Len(prog) THEN [balanced |-> open = <<>>, pairs |-> pairs]
    ELSE IF prog[k].op = "LoopStart"
         THEN Pairing(prog, k + 1, Append(open, k - 1), pairs)
    ELSE IF prog[k].op = "LoopEnd"
         THEN IF open = <<>> THEN [balanced |-> FALSE, pairs |-> pairs]
              ELSE Pairing(prog, k + 1, Front(open), pairs \cup {<<Last(open), k - 1>>})
    ELSE Pairing(prog, k + 1, open, pairs)

JumpsPaired(prog) ==
    LET r == Pairing(prog, 1, <<>>, {})
        n == Len(prog)
    IN  /\ r.balanced
        /\ \A k \in 1..n :
              /\ prog[k].op = "LoopStart" =>
                    LET j == prog[k].arg IN
                    /\ j > k - 1 /\ j < n
                    /\ prog[j + 1] = Inst("LoopEnd", k - 1)
                    /\ <<k - 1, j>> \in r.pairs
              /\ prog[k].op = "LoopEnd" =>
                    LET i == prog[k].arg IN
                    /\ i >= 0 /\ i < k - 1
                    /\ prog[i + 1] = Inst("LoopStart", k - 1)
                    /\ <<i, k - 1>> \in r.pairs

\* C5: the jumps of every program compile returns are paired and nested:
\* LoopStart at i holds j > i with program[j] = LoopEnd(i), LoopEnd at j
\* holds i < j with program[i] = LoopStart(j), and these pairs are the
\* pairs of the balanced bracket sequence of the program.
C5_JumpsPaired == pc = "compiled" => JumpsPaired(output)

\* "+[[]]" has compiled to a program with a loop nested in a loop
C5_Witness ==
    /\ pc = "compiled"
    /\ source = <<"+", "[", "[", "]", "]">>
    /\ output = <<Inst("Inc", 1), Inst("LoopStart", 4), Inst("LoopStart", 3),
                  Inst("LoopEnd", 2), Inst("LoopEnd", 1)>>

\* the operator characters of a text, in order
IsEmitOrBracket(c) == c \in EmitChars \cup {"[", "]"}
OpsOf(s) == SelectSeq(s, IsEmitOrBracket)

\* the text is one run of k >= 1 copies of the character c between comments
IsRunOf(s, c) == OpsOf(s) # <<>> /\ \A k \in 1..Len(OpsOf(s)) : OpsOf(s)[k] = c

\* a scan of '+', '-', '>' or '<' folds into the last instruction or appends
FoldStep ==
    \A c \in {"+", "-", ">", "<"} :
       (pc = "compile" /\ source' = Append(source, c)) =>
          IF output # <<>> /\ Last(output).op = TypeOf(c)
          THEN output' = [output EXCEPT ![Len(output)] =
                             Inst(TypeOf(c), Last(output).arg + 1)]
          ELSE output' = Append(output, Inst(TypeOf(c), 1))

\* counts are positive and no two neighbours are of the same foldable kind
Folded(prog) ==
    /\ \A k \in 1..Len(prog) : prog[k].op \in Foldable => prog[k].arg >= 1
    /\ \A k \in 1..(Len(prog) - 1) :
          prog[k].op \in Foldable => prog[k + 1].op # prog[k].op

\* C6: a text of k >= 1 copies of one of '+', '-', '<', '>' between comment
\* characters and newlines compiles to the one instruction of that kind with
\* count k; a scan of such a character adds one to the count of the last
\* instruction when it is of the same kind and appends a count of 1
\* otherwise; every count is >= 1 and no two neighbours are of the same
\* foldable kind.
C6_Folding ==
    /\ [](\A c \in {"+", "-", ">", "<"} :
             (pc = "compiled" /\ IsRunOf(source, c))
                => output = <<Inst(TypeOf(c), Len(OpsOf(source)))>>)
    /\ [](pc \in {"compile", "compiled"} => Folded(output))
    /\ [][FoldStep]_vars

\* "+x+", a newline and "+" have compiled to Inc(3)
C6_Witness ==
    /\ pc = "compiled"
    /\ source = <<"+", "x", "+", NL, "+">>
    /\ output = <<Inst("Inc", 3)>>

\* every instruction character of the text lies inside a loop
OnlyLoops(s) == \A p \in 1..Len(s) : s[p] \in EmitChars => Depth(s, p) >= 1

\* the ']' scanned closes the loop whose '[' was pushed at emission index 0
ClosesStartLoop ==
    /\ pc = "compile"
    /\ source' = Append(source, "]")
    /\ Len(loops) = 1
    /\ LoopIndex(loops[1]) = 0

\* C7: at the ']' matching a '[' scanned while no instruction was emitted,
\* the output is discarded, the loop stack is empty and the emission index
\* is 0, whatever the body holds; a text made only of such loops compiles to
\* the empty program.
C7_StartLoopElided ==
    /\ [][ClosesStartLoop => (output' = <<>> /\ loops' = <<>> /\ index' = 0
                              /\ pc' = "compile")]_vars
    /\ []((pc = "compiled" /\ OnlyLoops(source)) => output = <<>>)
    /\ []((pc = "compile" /\ loops # <<>> /\ LoopIndex(loops[1]) = 0)
             => output[1].op = "LoopStart")

\* "[[]]+" has compiled to Inc(1): the nested loop at the start is gone
C7_Witness ==
    /\ pc = "compiled"
    /\ source = <<"[", "[", "]", "]", "+">>
    /\ output = <<Inst("Inc", 1)>>

\* C8: a ']' scanned on an empty loop stack aborts compilation with the
\* unbalanced-close message at the 1-based line and column of that ']', and
\* nothing runs after the abort.
C8_UnbalancedClose ==
    /\ [][(pc = "compile" /\ loops = <<>> /\ source' = Append(source, "]"))
            => /\ pc' = "exit"
               /\ err' = [kind |-> "Unbalanced",
                          line |-> LineAt(source', Len(source')),
                          column |-> ColumnAt(source', Len(source'))]
               /\ program' = <<>>]_vars
    /\ [][pc # "exit"]_vars

\* "[]]" has aborted at line 1, column 3
C8_Witness ==
    /\ pc = "exit"
    /\ source = <<"[", "]", "]">>
    /\ err = [kind |-> "Unbalanced", line |-> 1, column |-> 3]

\* the step is the end of the source text
EndOfSource == pc = "compile" /\ pc' # "compile" /\ source' = source

\* C9: the end of the source with a non-empty loop stack fails with the
\* unterminated-open message at the line and column of the innermost
\* unmatched '[', in both source files.
C9_UnterminatedOpen ==
    [][(EndOfSource /\ loops # <<>>)
         => LET p == Last(OpenBrackets(source, 1, <<>>)) IN
            /\ pc' = "exit"
            /\ err' = [kind |-> "Unterminated",
                       line |-> LineAt(source, p),
                       column |-> ColumnAt(source, p)]]_vars

----------------------------------------------------------------------------
\* The clearing loop "[-]": whole runs of three texts, and the states in
\* which "," has read any byte v and the loop is about to start.

ClearAfterInc == <<"+", "[", "-", "]">>
ClearAfterInput == <<",", "[", "-", "]">>
ClearAfterShift == <<">", ",", "[", "-", "]">>
LoopTexts == {ClearAfterInc, ClearAfterInput, ClearAfterShift}

IsPrefix(s, t) == Len(s) <= Len(t) /\ SubSeq(t, 1, Len(s)) = s

\* the scan of the next character of one of the texts
LoopScan ==
    \E c \in Alphabet :
       /\ \E t \in LoopTexts : IsPrefix(Append(source, c), t)
       /\ Scan(c)

\* the end of one of the texts
LoopCompileEnd == source \in LoopTexts /\ CompileEnd

\* ",[-]" or ">,[-]" has been compiled and "," has read the byte v
LoopDrawn ==
    \E v \in 0..U8_MAX, shifted \in BOOLEAN :
       /\ variant \in Variants
       /\ files = 0
       /\ history = <<>>
       /\ source = IF shifted THEN ClearAfterShift ELSE ClearAfterInput
       /\ output = IF shifted
                   THEN <<Inst("ShiftRight", 1), InputInst, Inst("LoopStart", 4),
                          Inst("Dec", 1), Inst("LoopEnd", 2)>>
                   ELSE <<InputInst, Inst("LoopStart", 3), Inst("Dec", 1),
                          Inst("LoopEnd", 1)>>
       /\ loops = <<>>
       /\ index = Len(output)
       /\ line = 1
       /\ column = Len(source)
       /\ pc = "run"
       /\ err = NoError
       /\ program = output
       /\ ip = IF shifted THEN 2 ELSE 1
       /\ mp = IF shifted THEN 1 ELSE 0
       /\ memory = Store(<<>>, mp, v)
       /\ consumed = <<v>>
       /\ stdout = <<>>
       /\ unflushed = <<>>
       /\ steps = ip

LoopInit == Init \/ LoopDrawn

LoopNext ==
    \/ LoopScan
    \/ LoopCompileEnd
    \/ VmNew
    \/ VmStep
    \/ VmHalt

\* the program is sequential: it takes its next step whenever it has one
SpecLoop == LoopInit /\ [][LoopNext]_vars /\ WF_vars(LoopNext)

\* Vm::start is about to execute the LoopStart of the clearing loop
AtLoopStart == Executing({"LoopStart"})
\* the instruction after the LoopEnd of the clearing loop is next
LeftLoop == pc = "run" /\ ip = Len(program)

\* C10: "+[-]" compiles to [Inc(1), LoopStart(3), Dec(1), LoopEnd(1)] and
\* its run halts with the current cell at 0; for every value of the current
\* cell, the run of the compiled "[-]" leaves the loop with the current cell
\* at 0 and the memory pointer unchanged.
C10_ClearLoop ==
    /\ []((pc = "compiled" /\ source = ClearAfterInc)
             => output = <<Inst("Inc", 1), Inst("LoopStart", 3), Inst("Dec", 1),
                           Inst("LoopEnd", 1)>>)
    /\ (pc = "compiled" /\ source = ClearAfterInc) ~> (pc = "halted" /\ Cur = 0)
    /\ \A p \in {0, 1} :
          (AtLoopStart /\ mp = p) ~> (LeftLoop /\ Cur = 0 /\ mp = p)

\* the run of ",[-]" on the byte 255 has halted after 255 turns of the loop
C10_Witness ==
    /\ pc = "halted"
    /\ source = ClearAfterInput
    /\ consumed = <<U8_MAX>>
    /\ steps = 2 + 2 * U8_MAX
    /\ Cur = 0

----------------------------------------------------------------------------
\* The loop of Vm::start

\* the count of an instruction: its argument, or 1 for the bare Input and Output
Amount(inst) == IF "arg" \in DOMAIN inst THEN inst.arg ELSE 1
\* the program holds no LoopStart and no LoopEnd
NoJumps(prog) == \A k \in 1..Len(prog) : prog[k].op \notin {"LoopStart", "LoopEnd"}
\* the step is an Input that found fewer bytes than it asked for
ReadFailed ==
    Executing({"Input"}) /\ Len(consumed') - Len(consumed) < Amount(CurInst)
\* the step is an Output whose flush failed
FlushFailed == Executing({"Output"}) /\ unflushed' # <<>>

\* C11: the loop executes a step only while ip < program length and the run
\* halts only with ip >= program length; the halted state is terminal; the
\* empty program halts without a step; a program without jumps advances ip
\* by exactly 1 on every step whose input and output succeed, and halts
\* after exactly as many steps as it has instructions.
C11_RunLoop ==
    /\ [][Stepped => (pc = "run" /\ ip < Len(program))]_vars
    /\ [][(pc = "run" /\ pc' = "halted") => (ip >= Len(program) /\ UNCHANGED vmVars)]_vars
    /\ [][pc # "halted"]_vars
    /\ [](pc = "halted" /\ program = <<>> => steps = 0)
    /\ [](pc = "halted" /\ NoJumps(program) => steps = Len(program))
    /\ [][(pc = "run" /\ NoJumps(program) /\ Stepped /\ ~ReadFailed /\ ~FlushFailed)
            => (pc' = "run" /\ ip' = ip + 1)]_vars

\* C12: an Input that finds stdin exhausted, or whose read fails, aborts the
\* run at once: the step ends in the error outcome with ip, mp and the
\* program unchanged and the current cell holding what it held, or the last
\* byte really read by this Input, never 0 or another substitute; and no
\* step is taken from an aborted run, which so never executes a later
\* instruction and never halts.
C12_InputFailure ==
    /\ [][(ReadFailed /\ Stepped)
            => /\ pc' = IF IsA THEN "exit" ELSE "panic"
               /\ ip' = ip /\ mp' = mp /\ program' = program
               /\ memory' = IF consumed' = consumed THEN memory
                            ELSE Store(memory, mp, Last(consumed'))]_vars
    /\ [][pc \notin {"exit", "panic"}]_vars

\* main.rs, "+,": "," found stdin empty and the cell still holds 1
C12_Witness ==
    /\ IsB
    /\ source = <<"+", ",">>
    /\ pc = "panic"
    /\ ip = 1
    /\ steps = 2
    /\ consumed = <<>>
    /\ Cur = 1

\* C13: every Output flushes before ip advances: between instructions no
\* written byte is unflushed, and the bytes flushed are, in execution
\* order, the values the current cell held at the Output instructions
\* executed, each as many times as the instruction's count.
C13_OutputFlushed ==
    /\ [](pc \in {"run", "halted"} => unflushed = <<>>)
    /\ [][(Executing({"Output"}) /\ Stepped /\ pc' = "run")
            => stdout' = stdout \o Repeat(<<Cur>>, Amount(CurInst))]_vars
    /\ [][(Stepped /\ ~Executing({"Output"})) => stdout' = stdout]_vars

----------------------------------------------------------------------------
\* main: the files of the command line are compiled and run one after
\* another, and the program is started again after it has ended.

\* the calls of compile remembered in history
MaxCalls == 2

\* the texts of the files: programs that leave cells and the pointer changed,
\* the two compile errors, and loops opened at emission index 0
FileTexts ==
    { <<"+">>,
      <<">", "-">>,
      <<"]">>,
      <<NL, "[">>,
      <<"+", "[", "-", "]">>,
      <<"[", "+", "]", ".">>,
      <<"[", ".", "]", ">", "+">>,
      <<"[", "[", "]", "]", ",">>,
      <<"[", "]", "[", ">", "]">> }

\* compile's locals with line and column kept from the call before
CompileLocals_stale_position ==
    [output |-> <<>>, loops |-> <<>>, index |-> 0, line |-> line, column |-> column]

\* the locals of compile as it declares them
CompileLocals ==
    [output |-> <<>>, loops |-> <<>>, index |-> 0, line |-> 1, column |-> 0]

\* what the call of compile on the text read ended in: the program it
\* returned, or the error it printed
Outcome ==
    [text |-> source,
     program |-> IF err = NoError THEN output ELSE <<>>,
     err |-> err]

\* the scan of the next character of one of the files
FileScan ==
    \E c \in Alphabet :
       /\ \E t \in FileTexts : IsPrefix(Append(source, c), t)
       /\ Scan(c)

\* the end of one of the files
FileCompileEnd == source \in FileTexts /\ CompileEnd

\* files += 1, and compile is called on the next file of the command line
NextFile ==
    /\ pc = "halted"
    /\ Len(history) < MaxCalls
    /\ files' = files + 1
    /\ history' = Append(history, Outcome)
    /\ pc' = "compile"
    /\ source' = <<>>
    /\ output' = CompileLocals.output
    /\ loops' = CompileLocals.loops
    /\ index' = CompileLocals.index
    /\ line' = CompileLocals.line
    /\ column' = CompileLocals.column
    /\ UNCHANGED <<variant, err, vmVars>>

\* the process has ended and the program is started again on other files
Rerun ==
    /\ pc \in {"halted", "exit", "panic"}
    /\ Len(history) < MaxCalls
    /\ history' = Append(history, Outcome)
    /\ files' = 0
    /\ pc' = "compile"
    /\ source' = <<>>
    /\ output' = <<>>
    /\ loops' = <<>>
    /\ index' = 0
    /\ line' = 1
    /\ column' = 0
    /\ err' = NoError
    /\ program' = <<>>
    /\ ip' = 0
    /\ mp' = 0
    /\ memory' = <<>>
    /\ consumed' = <<>>
    /\ stdout' = <<>>
    /\ unflushed' = <<>>
    /\ steps' = 0
    /\ UNCHANGED variant

FilesNext ==
    \/ FileScan
    \/ FileCompileEnd
    \/ VmNew
    \/ BoundedVmStep
    \/ VmHalt
    \/ NextFile
    \/ Rerun

SpecFiles == Init /\ [][FilesNext]_vars

\* C14: compile is deterministic and keeps nothing from one call to the
\* next: a call that has returned or failed ended as every earlier call on
\* the same text did, in the same program or in the same error at the same
\* position, whatever was compiled and run in between.
C14_CompileDeterministic ==
    pc # "compile" =>
       \A k \in 1..Len(history) : history[k].text = source => history[k] = Outcome

\* "]" failed, another file was compiled, and "]" has failed again
C14_Witness ==
    /\ Len(history) = 2
    /\ history[1].text = <<"]">>
    /\ history[1].err.kind = "Unbalanced"
    /\ history[2].text # <<"]">>
    /\ files = 1
    /\ source = <<"]">>
    /\ pc = "exit"

----------------------------------------------------------------------------
\* The jumps of a compiled program

\* the pairs <<i, j>> of a LoopStart at index i and its matching LoopEnd at j
PairsOf(prog) == Pairing(prog, 1, <<>>, {}).pairs
\* the LoopStart matching the jump at index k, and the LoopEnd matching it
OpenOf(prog, k) ==
    IF prog[k + 1].op = "LoopStart" THEN k
    ELSE CHOOSE i \in 0..(Len(prog) - 1) : <<i, k>> \in PairsOf(prog)
CloseOf(prog, k) ==
    IF prog[k + 1].op = "LoopEnd" THEN k
    ELSE CHOOSE j \in 0..(Len(prog) - 1) : <<k, j>> \in PairsOf(prog)

\* C15: on a compiled program, with i the index of a LoopStart and j the
\* index of its matching LoopEnd: LoopStart at i goes on at j + 1 when the
\* current cell is 0 and at i + 1 when it is not; LoopEnd at j goes on at
\* i + 1 when the current cell is not 0 and at j + 1 when it is; and no jump
\* changes the tape or the memory pointer.
C15_JumpSteps ==
    [][(Executing({"LoopStart", "LoopEnd"}) /\ Stepped)
         => LET i == OpenOf(program, ip)
                j == CloseOf(program, ip)
            IN  /\ <<i, j>> \in PairsOf(program)
                /\ memory' = memory
                /\ mp' = mp
                /\ InBounds(mp) =>
                      /\ pc' = "run"
                      /\ ip' = IF CurInst.op = "LoopStart"
                               THEN (IF Cur = 0 THEN j + 1 ELSE i + 1)
                               ELSE (IF Cur # 0 THEN i + 1 ELSE j + 1)]_vars

\* ",[-]" on the byte 255: LoopEnd at 3 found the cell at 254 and went back to 2
C15_Witness ==
    /\ source = <<",", "[", "-", "]">>
    /\ consumed = <<U8_MAX>>
    /\ pc = "run"
    /\ steps = 4
    /\ Cur = U8_MAX - 1
    /\ ip = 2

----------------------------------------------------------------------------
\* Runs of ',' and '.' in brainfuck.rs

\* C16: in brainfuck.rs a text of k >= 1 copies of ',' or of '.' between
\* comments compiles to the one instruction Input(k) or Output(k); Input(k),
\* when stdin holds the bytes, consumes exactly k of them and leaves the
\* current cell holding the last one; Output(k) writes the byte of the
\* current cell exactly k times and flushes.
C16_IoFolding ==
    /\ [](\A c \in {",", "."} :
             (IsA /\ pc = "compiled" /\ IsRunOf(source, c))
                => output = <<Inst(TypeOf(c), Len(OpsOf(source)))>>)
    /\ [][(IsA /\ Executing({"Input"}) /\ Stepped /\ ~ReadFailed)
            => /\ Len(consumed') = Len(consumed) + CurInst.arg
               /\ SubSeq(consumed', 1, Len(consumed)) = consumed
               /\ memory' = Store(memory, mp, Last(consumed'))
               /\ stdout' = stdout]_vars
    /\ [][(IsA /\ Executing({"Output"}) /\ Stepped /\ ~FlushFailed)
            => /\ stdout' = stdout \o Repeat(<<Cur>>, CurInst.arg)
               /\ unflushed' = <<>>
               /\ consumed' = consumed]_vars

----------------------------------------------------------------------------
\* What a step of the VM leaves alone

\* every cell but the current one holds what it held
OtherCellsKept ==
    \A i \in (DOMAIN memory \cup DOMAIN memory') \ {mp} :
       Cell(memory', i) = Cell(memory, i)

\* C17: a step of the VM changes only what its instruction names: Inc, Dec
\* and Input leave mp and every cell but the current one unchanged, the
\* shifts leave the tape unchanged, Output and the jumps leave the tape and
\* mp unchanged, and no step changes the program.
C17_Frame ==
    [][Stepped =>
          /\ program' = program
          /\ CurInst.op \in {"Inc", "Dec", "Input"} => (mp' = mp /\ OtherCellsKept)
          /\ CurInst.op \in {"ShiftRight", "ShiftLeft"} => memory' = memory
          /\ CurInst.op \in {"Output", "LoopStart", "LoopEnd"}
                => (memory' = memory /\ mp' = mp)]_vars

\* "+>+": the Inc at cell 1 has left cell 0 at 1
C17_Witness ==
    /\ source = <<"+", ">", "+">>
    /\ pc = "run"
    /\ steps = 3
    /\ mp = 1
    /\ Cell(memory, 0) = 1
    /\ Cell(memory, 1) = 1

----------------------------------------------------------------------------
\* A folded instruction against the instructions of count 1 it stands for

\* the cell (kind "cell") or the pointer (kind "pointer") x after n
\* consecutive instructions of count 1: n applications of the step of
\* count 1, the first half of them, which end in y, and then the other m
RECURSIVE UnitSteps(_, _, _, _)
UnitSteps(kind, op, x, n) ==
    IF n = 0 THEN x
    ELSE IF n = 1 THEN (IF kind = "cell" THEN Arith(op, x, 1) ELSE Shift(op, x, 1))
    ELSE CHOOSE r \in {UnitSteps(kind, op, y, m) :
                          y \in {UnitSteps(kind, op, x, n \div 2)},
                          m \in {n - (n \div 2)}} : TRUE

\* the operator of an arithmetic or shift instruction in change! and modulo!
SignOf(type) == IF type \in {"Inc", "ShiftRight"} THEN "+" ELSE "-"

\* the counts drawn for Inc and Dec: short ones and whole turns of the cell
FoldAmounts ==
    (1..MaxMp) \cup {t * (U8_MAX + 1) + d : t \in 1..MaxTurns, d \in -2..2}

\* after "," has read the byte v: Inc(n) or Dec(n) is next
FoldArithInit ==
    \E v \in 0..U8_MAX, n \in FoldAmounts, op \in {"Inc", "Dec"} :
       /\ program = <<InputInst, Inst(op, n)>>
       /\ ip = 1
       /\ mp = 0
       /\ memory = Store(<<>>, 0, v)
       /\ consumed = <<v>>
       /\ steps = 1

FoldInit ==
    /\ variant \in Variants
    /\ files = 0
    /\ history = <<>>
    /\ source = <<>>
    /\ output = <<>>
    /\ loops = <<>>
    /\ index = 0
    /\ line = 1
    /\ column = 0
    /\ pc = "run"
    /\ err = NoError
    /\ stdout = <<>>
    /\ unflushed = <<>>
    /\ (FoldArithInit \/ ShiftInit)

SpecFold == FoldInit /\ [][VmNext]_vars

\* C18: one folded Inc(n), Dec(n), ShiftRight(n) or ShiftLeft(n) ends in the
\* tape and the memory pointer that n consecutive instructions of the same
\* kind with count 1 end in, for every n >= 1, in both source files.
C18_FoldedAsUnits ==
    [][(Executing({"Inc", "Dec", "ShiftRight", "ShiftLeft"}) /\ Stepped /\ pc' = "run")
         => LET n == CurInst.arg
                op == SignOf(CurInst.op)
            IN  IF CurInst.op \in {"Inc", "Dec"}
                THEN /\ memory' = Store(memory, mp, UnitSteps("cell", op, Cur, n))
                     /\ mp' = mp
                ELSE /\ mp' = UnitSteps("pointer", op, mp, n)
                     /\ memory' = memory]_vars

----------------------------------------------------------------------------
\* The loops opened at emission index 0: the files of the command line
\* compiled without the arm Some(0) of ']' and run on the same input

\* the arm Some(i) of ']', taken for every i
PatchLoop(out, lps, idx) ==
    LET i == LoopIndex(Last(lps)) IN
    [output |-> Append([out EXCEPT ![i + 1] = Inst("LoopStart", idx)], Inst("LoopEnd", i)),
     loops |-> Front(lps),
     index |-> idx + 1]

\* output, loops and index after the scan of the first k characters of a
\* text that compiles, every ']' taking the arm Some(i)
RECURSIVE compile_without_elision(_, _)
compile_without_elision(src, k) ==
    IF k = 0 THEN [output |-> <<>>, loops |-> <<>>, index |-> 0]
    ELSE LET s == compile_without_elision(src, k - 1)
             c == src[k]
         IN  IF c \in EmitChars
             THEN LET r == Emit(s.output, s.index, c) IN
                  [output |-> r.output, loops |-> s.loops,
                   index |-> IF r.continue THEN s.index ELSE s.index + 1]
             ELSE IF c = "["
             THEN LET r == OpenLoop(s.output, s.loops, s.index, 1, k) IN
                  [output |-> r.output, loops |-> r.loops, index |-> s.index + 1]
             ELSE IF c = "]" /\ s.loops # <<>>
             THEN PatchLoop(s.output, s.loops, s.index)
             ELSE s

\* Vm::execute and self.ip += 1 on the VM st, which reads the bytes of
\* input from position st.read on and whose flushes succeed
RunStep(prog, st, input) ==
    LET inst == prog[st.ip + 1]
        amount == Amount(inst)
        cell == Cell(st.memory, st.mp)
        next == [st EXCEPT !.ip = st.ip + 1]
        aborted == [st EXCEPT !.status = "aborted"]
    IN  IF inst.op \in {"ShiftRight", "ShiftLeft"}
        THEN [next EXCEPT !.mp = Shift(SignOf(inst.op), st.mp, amount)]
        ELSE IF ~InBounds(st.mp) THEN aborted
        ELSE CASE inst.op \in {"Inc", "Dec"} ->
                    [next EXCEPT !.memory =
                        Store(st.memory, st.mp, Arith(SignOf(inst.op), cell, amount))]
               [] inst.op = "Output" ->
                    [next EXCEPT !.stdout = st.stdout \o Repeat(Utf8(cell), amount)]
               [] inst.op = "Input" ->
                    IF st.read + amount <= Len(input)
                    THEN [next EXCEPT !.memory =
                                         Store(st.memory, st.mp, input[st.read + amount]),
                                      !.read = st.read + amount]
                    ELSE aborted
               [] inst.op = "LoopStart" ->
                    [st EXCEPT !.ip = (IF cell = 0 THEN inst.arg ELSE st.ip) + 1]
               [] inst.op = "LoopEnd" ->
                    [st EXCEPT !.ip = (IF cell # 0 THEN inst.arg ELSE st.ip) + 1]

\* Vm::start on the VM st, for at most fuel iterations of its loop
RECURSIVE RunFrom(_, _, _, _)
RunFrom(prog, st, input, fuel) ==
    IF st.status # "run" THEN st
    ELSE IF st.ip >= Len(prog) THEN [st EXCEPT !.status = "halted"]
    ELSE IF fuel = 0 THEN st
    ELSE CHOOSE r \in {RunFrom(prog, t, input, fuel - 1) :
                          t \in {RunStep(prog, st, input)}} : TRUE

\* the files of the command line the process has compiled so far
ProcessTexts ==
    [k \in 1..(files + 1) |->
        IF k <= files THEN history[Len(history) - files + k].text ELSE source]

\* main on the first k files, compiled without elision: the last VM and the
\* streams when it stopped
RECURSIVE RunFiles(_, _, _)
RunFiles(texts, k, input) ==
    IF k = 0
    THEN [ip |-> 0, mp |-> 0, memory |-> <<>>, read |-> 0, stdout |-> <<>>,
          status |-> "halted"]
    ELSE LET before == RunFiles(texts, k - 1, input)
             prog == compile_without_elision(texts[k], Len(texts[k])).output
         IN  IF before.status # "halted" THEN before
             ELSE RunFrom(prog,
                          [before EXCEPT !.ip = 0, !.mp = 0, !.memory = <<>>,
                                         !.status = "run"],
                          input, MaxSteps + MaxLen)

\* C19: every VM starts with all cells 0, mp = 0 and ip = 0, also when
\* several files are run one after another, and a run that has halted ended
\* with the output, the input consumed, the tape and the pointer that the
\* same files compiled without the elision of the loops opened at emission
\* index 0 end with on the same input.
C19_ElisionPreservesRun ==
    /\ (pc = "run" /\ steps = 0) => (memory = <<>> /\ mp = 0 /\ ip = 0)
    /\ pc = "halted" =>
          LET r == RunFiles(ProcessTexts, files + 1, consumed) IN
          /\ r.status = "halted"
          /\ r.stdout = stdout
          /\ r.read = Len(consumed)
          /\ r.memory = memory
          /\ r.mp = mp

\* "+" left cell 0 at 1, and then "[+]." has run as "." alone and written 0
C19_Witness ==
    /\ files = 1
    /\ history[Len(history)].text = <<"+">>
    /\ source = <<"[", "+", "]", ".">>
    /\ Len(program) = 1
    /\ program[1].op = "Output"
    /\ pc = "halted"
    /\ stdout = <<0>>
    /\ memory = <<>>

----------------------------------------------------------------------------
\* The bookkeeping of compile

\* C20: between the iterations of the scan, index is the length of output,
\* so that the output[index - 1] written by sized_inst! is the last
\* instruction and in range; the indices on the loop stack increase strictly
\* from bottom to top, each is below index and each points at a LoopStart of
\* output; hence only the bottom entry can be 0, and the loops.clear() of
\* the elision, taken on a popped 0, empties a stack of that one entry.
C20_CompilerBookkeeping ==
    /\ pc = "compile" =>
          /\ index = Len(output)
          /\ \A k \in 1..Len(loops) :
                /\ LoopIndex(loops[k]) \in 0..(index - 1)
                /\ output[LoopIndex(loops[k]) + 1].op = "LoopStart"
          /\ \A k \in 1..(Len(loops) - 1) :
                LoopIndex(loops[k]) < LoopIndex(loops[k + 1])
          /\ \A k \in 2..Len(loops) : LoopIndex(loops[k]) # 0
          /\ (loops # <<>> /\ LoopIndex(Last(loops)) = 0) => Len(loops) = 1
    /\ pc = "panic" => steps > 0

\* "++[[+": two loops are open at 1 and 2 behind the folded Inc(2)
C20_Witness ==
    /\ source = <<"+", "+", "[", "[", "+">>
    /\ pc = "compile"
    /\ index = 4
    /\ output[1] = Inst("Inc", 2)
    /\ Len(loops) = 2
    /\ LoopIndex(loops[1]) = 1
    /\ LoopIndex(loops[2]) = 2

====
